---------------------------- MODULE Spec2Model ----------------------------
(***************************************************************************)
(* State-machine model of the EV charging station scheduler, src/main.cpp. *)
(*                                                                         *)
(* Units.  The program computes with C++ floats; the model computes the    *)
(* same quantities exactly, as integers in fixed units:                    *)
(*   time, duration       hours                                            *)
(*   power                half kW      (Cloudy halves 7 kW to 3.5 kW)      *)
(*   energy               half kWh     (= power * duration)                *)
(*   rate                 1/400000 $ per kWh                               *)
(*   cost                 1/800000 $   (= energy * rate)                   *)
(*   batterySOC           quarter percent, or one of the IEEE special      *)
(*                        values NaN / +inf that a division by a zero      *)
(*                        batteryCapacity produces                         *)
(*   batteryCapacity      kWh                                              *)
(* With the inputs enumerated below every product and quotient is exact.   *)
(***************************************************************************)
EXTENDS Integers, Sequences, FiniteSets, TLC

VARIABLES
    currentWeather,   \* the process-wide WeatherCondition
    stations,         \* ChargingNetwork::stations, indexed by station ID
    ended,            \* history: how each booking stopped being active
    out               \* what the last operation returned and notified

vars == <<currentWeather, stations, ended, out>>

---------------------------------------------------------------------------
(* Program constants *)

MAX_USERS == 10
MAX_DOCKS == 5
MAX_BOOKINGS == 20
MAX_STATIONS == 3
SLOW == 7
MEDIUM == 22
FAST == 50
SOLAR == 7
PEAK_START == 12
PEAK_END == 18

(* Bounds of the model *)

MaxBookings == 2         \* bookings a station's ledger holds in Spec
MaxBookingsShallow == 1  \* the same in SpecPeak and SpecBilling
MaxSocPercent == 150    \* dischargeToGrid is explored while SOC stays <= this

---------------------------------------------------------------------------
(* Floats that may be NaN or +infinity (only batterySOC can be) *)

Num(v) == [k |-> "num", v |-> v]
NaN == [k |-> "nan", v |-> 0]
Inf == [k |-> "inf", v |-> 0]

Pct(p) == 4 * p                 \* p percent, in quarter percents
Min(a, b) == IF b < a THEN b ELSE a
Max(a, b) == IF a < b THEN b ELSE a

\* f < p percent, as the float comparison evaluates it
FloatLess(f, p) == f.k = "num" /\ f.v < Pct(p)
\* f > p percent
FloatGreater(f, p) == f.k = "inf" \/ (f.k = "num" /\ f.v > Pct(p))

---------------------------------------------------------------------------
(* EnergySource, GridPower, SolarPower *)

getRateAdjustmentTenths(src) == IF src = "Solar" THEN 9 ELSE 10

\* mutant: a Solar source that delivers its rating whatever the weather
getAvailablePower_AnyWeather(src, basePower, weather) == 2 * basePower

\* available power in half kW for a dock of nominal basePower kW
getAvailablePower(src, basePower, weather) ==
    IF src = "Grid" THEN 2 * basePower
    ELSE CASE weather = "SUNNY" -> 2 * basePower
           [] weather = "CLOUDY" -> basePower
           [] weather = "NIGHT" -> 0

---------------------------------------------------------------------------
(* User, EV, ChargingDock, Booking records *)

\* User::registerUser
NewUser(id, level) ==
    [userID |-> id, isRegistered |-> TRUE,
     membershipLevel |-> IF level # 0 /\ level # 1 THEN 0 ELSE level]

\* EV::registerVehicle
NewVehicle(vID, uID, soc, capacity, v2g) ==
    [vehicleID |-> vID, userID |-> uID,
     batterySOC |-> Num(Pct(Max(0, Min(100, soc)))),
     batteryCapacity |-> Max(0, capacity),
     supportsV2G |-> v2g]

\* ChargingDock::initialize
NewDock(id, rating, source) ==
    [dockID |-> id, powerRating |-> rating, isOccupied |-> FALSE,
     currentVehicleID |-> -1, energySource |-> source]

\* mutant: IDs that start at 0
NewBooking_ZeroBasedID(bID, uID, vID, dID, sID, time, dur, type) ==
    [bookingID |-> bID - 1, userID |-> uID, vehicleID |-> vID, dockID |-> dID,
     stationID |-> sID, startTime |-> time, duration |-> dur,
     isActive |-> TRUE, cost |-> 0, energyConsumed |-> 0,
     chargingType |-> type]

\* mutant: a booking that is born with a cost
NewBooking_Prebilled(bID, uID, vID, dID, sID, time, dur, type) ==
    [bookingID |-> bID, userID |-> uID, vehicleID |-> vID, dockID |-> dID,
     stationID |-> sID, startTime |-> time, duration |-> dur,
     isActive |-> TRUE, cost |-> 1, energyConsumed |-> 0,
     chargingType |-> type]

\* Booking::createBooking
NewBooking(bID, uID, vID, dID, sID, time, dur, type) ==
    [bookingID |-> bID, userID |-> uID, vehicleID |-> vID, dockID |-> dID,
     stationID |-> sID, startTime |-> time, duration |-> dur,
     isActive |-> TRUE, cost |-> 0, energyConsumed |-> 0,
     chargingType |-> type]

\* ChargingStation::ChargingStation
NewStation(sID) ==
    [stationID |-> sID,
     users |-> <<>>, vehicles |-> <<>>, bookings |-> <<>>,
     totalOccupiedTime |-> [i \in 1..MAX_DOCKS |-> 0],
     systemStartTime |-> 0,
     docks |-> <<NewDock(1, SLOW, "Grid"), NewDock(2, SLOW, "Solar"),
                 NewDock(3, MEDIUM, "Grid"), NewDock(4, MEDIUM, "Solar"),
                 NewDock(5, FAST, "Grid")>>]

\* userCount, vehicleCount, bookingCount are the lengths of the arrays' used parts
userCount(st) == Len(st.users)
vehicleCount(st) == Len(st.vehicles)
bookingCount(st) == Len(st.bookings)

StationIDs == 1..MAX_STATIONS

\* mutant: every ID gets station 1
getStation_AlwaysFirst(stationID) == 1

\* ChargingNetwork::getStation: an invalid ID defaults to station 1
getStation(stationID) ==
    IF stationID < 1 \/ stationID > MAX_STATIONS THEN 1 ELSE stationID

---------------------------------------------------------------------------
(* Output of an operation: its return value and the notifications it sent *)

Note(userID, msg, value) == [userID |-> userID, msg |-> msg, value |-> value]
Out(ok, val, notes) == [ok |-> ok, val |-> val, notes |-> notes]

Init ==
    /\ currentWeather = "SUNNY"
    /\ stations = [s \in StationIDs |-> NewStation(s)]
    /\ ended = [s \in StationIDs |-> <<>>]
    /\ out = Out(TRUE, 0, <<>>)

---------------------------------------------------------------------------
(* ChargingStation::registerUser *)

UserIDTaken(st, id) == \E i \in 1..userCount(st) : st.users[i].userID = id

RegisterUser(stationID, id, level) ==
    LET s == getStation(stationID)
        st == stations[s]
    IN IF userCount(st) >= MAX_USERS \/ UserIDTaken(st, id)
       THEN /\ out' = Out(FALSE, 0, <<>>)
            /\ UNCHANGED <<currentWeather, stations, ended>>
       ELSE /\ stations' = [stations EXCEPT
                   ![s].users = Append(st.users, NewUser(id, level))]
            /\ out' = Out(TRUE, 0, <<>>)
            /\ UNCHANGED <<currentWeather, ended>>

(* ChargingStation::registerVehicle *)

UserRegistered(st, uID) ==
    \E i \in 1..userCount(st) :
        st.users[i].userID = uID /\ st.users[i].isRegistered

VehicleIDTaken(st, vID) ==
    \E j \in 1..vehicleCount(st) : st.vehicles[j].vehicleID = vID

RegisterVehicle(stationID, vID, uID, soc, capacity, v2g) ==
    LET s == getStation(stationID)
        st == stations[s]
    IN IF vehicleCount(st) >= MAX_USERS
          \/ ~UserRegistered(st, uID)
          \/ VehicleIDTaken(st, vID)
       THEN /\ out' = Out(FALSE, 0, <<>>)
            /\ UNCHANGED <<currentWeather, stations, ended>>
       ELSE /\ stations' = [stations EXCEPT
                   ![s].vehicles =
                       Append(st.vehicles, NewVehicle(vID, uID, soc, capacity, v2g))]
            /\ out' = Out(TRUE, 0, <<>>)
            /\ UNCHANGED <<currentWeather, ended>>

(* main, case 11: change the weather condition *)

SetWeather(weather) ==
    IF weather = 0 \/ weather = 1 \/ weather = 2
    THEN /\ currentWeather' = (CASE weather = 0 -> "SUNNY"
                                 [] weather = 1 -> "CLOUDY"
                                 [] weather = 2 -> "NIGHT")
         /\ out' = Out(TRUE, 0, <<>>)
         /\ UNCHANGED <<stations, ended>>
    ELSE /\ out' = Out(FALSE, 0, <<>>)
         /\ UNCHANGED <<currentWeather, stations, ended>>

---------------------------------------------------------------------------
(* Array scans: the index of the first element the loop stops at, 0 if none *)

VehicleIndex(st, vID) ==
    LET hit == {j \in 1..vehicleCount(st) : st.vehicles[j].vehicleID = vID}
    IN IF hit = {} THEN 0 ELSE CHOOSE j \in hit : \A k \in hit : j <= k

DockIndex(st, dockID) ==
    LET hit == {j \in 1..MAX_DOCKS : st.docks[j].dockID = dockID}
    IN IF hit = {} THEN 0 ELSE CHOOSE j \in hit : \A k \in hit : j <= k

\* mutant: the loop stops at the ID, whatever the booking's isActive
ActiveBookingIndex_AnyStatus(st, bookingID) ==
    LET hit == {i \in 1..bookingCount(st) : st.bookings[i].bookingID = bookingID}
    IN IF hit = {} THEN 0 ELSE CHOOSE i \in hit : \A k \in hit : i <= k

\* mutant: the loop stops at the first Active booking, whatever its ID
ActiveBookingIndex_AnyID(st, bookingID) ==
    LET hit == {i \in 1..bookingCount(st) : st.bookings[i].isActive}
    IN IF hit = {} THEN 0 ELSE CHOOSE i \in hit : \A k \in hit : i <= k

\* the booking the loops of cancelBooking and completeBooking stop at
ActiveBookingIndex(st, bookingID) ==
    LET hit == {i \in 1..bookingCount(st) :
                   st.bookings[i].bookingID = bookingID /\ st.bookings[i].isActive}
    IN IF hit = {} THEN 0 ELSE CHOOSE i \in hit : \A k \in hit : i <= k

IsPremium(st, uID) ==
    \E i \in 1..userCount(st) :
        st.users[i].userID = uID /\ st.users[i].membershipLevel = 1

\* mutant: the window without its first instant
IsPeak_OpenStart(startTime) == startTime > PEAK_START /\ startTime < PEAK_END

IsPeak(startTime) == startTime >= PEAK_START /\ startTime < PEAK_END

---------------------------------------------------------------------------
(* ChargingStation::isCriticalBooking *)

isCriticalBooking(st, uID, vID) ==
    LET j == VehicleIndex(st, vID)
        soc == IF j = 0 THEN Num(0) ELSE st.vehicles[j].batterySOC
    IN IsPremium(st, uID) \/ FloatLess(soc, 20)

(* ChargingStation::isDockAvailable *)

isDockAvailable(st, dockID, startTime, duration) ==
    IF bookingCount(st) < 0 \/ bookingCount(st) > MAX_BOOKINGS THEN FALSE
    ELSE \A i \in 1..bookingCount(st) :
            LET b == st.bookings[i]
                bStart == b.startTime
                bEnd == bStart + b.duration
                newEnd == startTime + duration
            IN (b.isActive /\ b.dockID = dockID)
                   => ~(startTime < bEnd /\ newEnd > bStart)

(* ChargingStation::findAvailableDock *)

\* mutant: the loop's test without its two occupancy conditions
IsSuitable_IgnoresBookings(st, i, powerRating, startTime, duration, isSolarCharging, weather) ==
    LET d == st.docks[i]
        availablePower == getAvailablePower(d.energySource, d.powerRating, weather)
    IN /\ availablePower >= 2 * powerRating
       /\ (~isSolarCharging \/ d.energySource = "Solar")

\* mutant: the loop's test without the condition on the Solar charging type
IsSuitable_AnySource(st, i, powerRating, startTime, duration, isSolarCharging, weather) ==
    LET d == st.docks[i]
        availablePower == getAvailablePower(d.energySource, d.powerRating, weather)
    IN /\ ~d.isOccupied
       /\ availablePower >= 2 * powerRating
       /\ isDockAvailable(st, d.dockID, startTime, duration)

\* the test of the first loop, for the dock at index i
IsSuitable(st, i, powerRating, startTime, duration, isSolarCharging, weather) ==
    LET d == st.docks[i]
        availablePower == getAvailablePower(d.energySource, d.powerRating, weather)
    IN /\ ~d.isOccupied
       /\ availablePower >= 2 * powerRating
       /\ (~isSolarCharging \/ d.energySource = "Solar")
       /\ isDockAvailable(st, d.dockID, startTime, duration)

\* suitableDocks: the dock IDs, in array order
suitableDocks(st, powerRating, startTime, duration, isSolarCharging, weather) ==
    LET Test(i) == IsSuitable(st, i, powerRating, startTime, duration,
                              isSolarCharging, weather)
        idx == SelectSeq([i \in 1..MAX_DOCKS |-> i], Test)
    IN [n \in 1..Len(idx) |-> st.docks[idx[n]].dockID]

\* mutant: the first suitable dock, whatever the hour
findAvailableDock_FirstSuitable(st, powerRating, startTime, duration, isSolarCharging, weather) ==
    LET suitable == suitableDocks(st, powerRating, startTime, duration,
                                  isSolarCharging, weather)
    IN IF Len(suitable) = 0 THEN -1 ELSE suitable[1]

findAvailableDock(st, powerRating, startTime, duration, isSolarCharging, weather) ==
    LET suitable == suitableDocks(st, powerRating, startTime, duration,
                                  isSolarCharging, weather)
        solar == {n \in 1..Len(suitable) :
                     \E i \in 1..MAX_DOCKS :
                         /\ st.docks[i].dockID = suitable[n]
                         /\ st.docks[i].energySource = "Solar"}
    IN IF Len(suitable) = 0 THEN -1
       ELSE IF IsPeak(startTime) /\ ~isSolarCharging /\ solar # {}
            THEN suitable[CHOOSE n \in solar : \A m \in solar : n <= m]
            ELSE suitable[1]

---------------------------------------------------------------------------
(* ChargingStation::createBooking *)

UserExists(st, uID) ==
    \E i \in 1..userCount(st) :
        st.users[i].userID = uID /\ st.users[i].isRegistered

\* mutant: the vehicle is looked up by its ID alone
VehicleExists_AnyOwner(st, vID, uID) ==
    \E i \in 1..vehicleCount(st) : st.vehicles[i].vehicleID = vID

VehicleExists(st, vID, uID) ==
    \E i \in 1..vehicleCount(st) :
        st.vehicles[i].vehicleID = vID /\ st.vehicles[i].userID = uID

\* the start time createBooking books: PEAK_END for a deferred request
AdjustedStartTime(st, uID, vID, startTime) ==
    IF IsPeak(startTime) /\ ~isCriticalBooking(st, uID, vID)
    THEN PEAK_END ELSE startTime

DeferralNotes(st, uID, vID, startTime) ==
    IF IsPeak(startTime) /\ ~isCriticalBooking(st, uID, vID)
    THEN <<Note(uID, "deferred", PEAK_END)>> ELSE <<>>

\* the station once the "if (bookingCount == 0)" line has run
WithSystemStart(st, startTime) ==
    IF bookingCount(st) = 0 THEN [st EXCEPT !.systemStartTime = startTime] ELSE st

OccupyDock(docks, dockID, vID) ==
    LET hit == {j \in 1..MAX_DOCKS : docks[j].dockID = dockID}
        j == CHOOSE j \in hit : \A k \in hit : j <= k
    IN IF hit = {} THEN docks
       ELSE [docks EXCEPT ![j].isOccupied = TRUE, ![j].currentVehicleID = vID]

\* mutant: the dock is freed but keeps its vehicle
FreeDock_KeepsVehicle(docks, dockID) ==
    LET hit == {j \in 1..MAX_DOCKS : docks[j].dockID = dockID}
        j == CHOOSE j \in hit : \A k \in hit : j <= k
    IN IF hit = {} THEN docks ELSE [docks EXCEPT ![j].isOccupied = FALSE]

FreeDock(docks, dockID) ==
    LET hit == {j \in 1..MAX_DOCKS : docks[j].dockID = dockID}
        j == CHOOSE j \in hit : \A k \in hit : j <= k
    IN IF hit = {} THEN docks
       ELSE [docks EXCEPT ![j].isOccupied = FALSE, ![j].currentVehicleID = -1]

\* mutant: only the Active bookings count against the limit
LedgerFull_CountsActive(st) ==
    Cardinality({i \in 1..bookingCount(st) : st.bookings[i].isActive}) >= MAX_BOOKINGS

\* the first test of createBooking
LedgerFull(st) == bookingCount(st) < 0 \/ bookingCount(st) >= MAX_BOOKINGS

CreateBooking(stationID, uID, vID, startTime, duration, powerRating, chargingType) ==
    LET s == getStation(stationID)
        st == stations[s]
    IN IF LedgerFull(st)
       THEN /\ out' = Out(FALSE, 0, <<>>)
            /\ UNCHANGED <<currentWeather, stations, ended>>
       ELSE IF startTime < 0 \/ startTime >= 24 \/ duration <= 0
       THEN /\ out' = Out(FALSE, 0, <<>>)
            /\ UNCHANGED <<currentWeather, stations, ended>>
       ELSE IF ~UserExists(st, uID) \/ ~VehicleExists(st, vID, uID)
       THEN /\ out' = Out(FALSE, 0, <<>>)
            /\ UNCHANGED <<currentWeather, stations, ended>>
       ELSE
         LET st1 == WithSystemStart(st, startTime)
             adjustedStartTime == AdjustedStartTime(st1, uID, vID, startTime)
             deferral == DeferralNotes(st1, uID, vID, startTime)
             isSolarCharging == (chargingType = 4)
             dockID == findAvailableDock(st1, powerRating, adjustedStartTime,
                                         duration, isSolarCharging, currentWeather)
         IN IF dockID = -1
            THEN /\ stations' = [stations EXCEPT ![s] = st1]
                 /\ out' = Out(FALSE, 0, deferral)
                 /\ UNCHANGED <<currentWeather, ended>>
            ELSE /\ stations' = [stations EXCEPT ![s] =
                        [st1 EXCEPT
                           !.bookings = Append(st1.bookings,
                               NewBooking(bookingCount(st1) + 1, uID, vID, dockID,
                                          st1.stationID, adjustedStartTime,
                                          duration, chargingType)),
                           !.docks = OccupyDock(st1.docks, dockID, vID)]]
                 /\ ended' = [ended EXCEPT ![s] = Append(ended[s], "Active")]
                 /\ out' = Out(TRUE, 0,
                        deferral \o <<Note(uID, "scheduled", adjustedStartTime)>>)
                 /\ UNCHANGED currentWeather

---------------------------------------------------------------------------
(* ChargingStation::cancelBooking *)

\* mutant: the first threshold includes one hour
Penalty_Inclusive(timeToStart) ==
    IF timeToStart <= 1 THEN 5 ELSE IF timeToStart < 4 THEN 2 ELSE 0

Penalty(timeToStart) ==
    IF timeToStart < 1 THEN 5 ELSE IF timeToStart < 4 THEN 2 ELSE 0

CancelBooking(stationID, bookingID) ==
    LET s == getStation(stationID)
        st == stations[s]
        i == ActiveBookingIndex(st, bookingID)
    IN IF i = 0
       THEN /\ out' = Out(TRUE, 0, <<>>)
            /\ UNCHANGED <<currentWeather, stations, ended>>
       ELSE LET b == st.bookings[i]
                penalty == Penalty(b.startTime - st.systemStartTime)
            IN /\ stations' = [stations EXCEPT ![s] =
                      [st EXCEPT !.bookings[i].isActive = FALSE,
                                 !.docks = FreeDock(st.docks, b.dockID)]]
               /\ ended' = [ended EXCEPT ![s][i] = "Cancelled"]
               /\ out' = Out(TRUE, 0, <<Note(b.userID, "cancelled", penalty)>>)
               /\ UNCHANGED currentWeather

---------------------------------------------------------------------------
(* ChargingStation::completeBooking *)

\* ratePerKWh before the energy source's adjustment, in 1/400000 $ per kWh
BaseRate(chargingType) ==
    CASE chargingType = 1 -> 80000
      [] chargingType = 2 -> 120000
      [] chargingType = 3 -> 160000
      [] chargingType = 4 -> 60000
      [] OTHER -> 0

\* mutant: the rate without the peak-hour surcharge
RatePerKWh_NoPeak(chargingType, startTime, src) ==
    LET r0 == BaseRate(chargingType)
        r1 == IF chargingType = 4 THEN (r0 * 85) \div 100 ELSE r0
    IN (r1 * getRateAdjustmentTenths(src)) \div 10

\* mutant: the surcharge whatever the start time
RatePerKWh_AlwaysPeak(chargingType, startTime, src) ==
    LET r0 == BaseRate(chargingType)
        r1 == IF chargingType = 4 THEN (r0 * 85) \div 100 ELSE r0
        r2 == (r1 * 12) \div 10
    IN (r2 * getRateAdjustmentTenths(src)) \div 10

RatePerKWh(chargingType, startTime, src) ==
    LET r0 == BaseRate(chargingType)
        r1 == IF chargingType = 4 THEN (r0 * 85) \div 100 ELSE r0
        r2 == IF IsPeak(startTime) THEN (r1 * 12) \div 10 ELSE r1
    IN (r2 * getRateAdjustmentTenths(src)) \div 10

\* cost = energy * ratePerKWh, times 0.85 for a premium member
Cost(st, userID, energy, ratePerKWh) ==
    LET cost == energy * ratePerKWh
    IN IF IsPremium(st, userID) THEN (cost \div 20) * 17 ELSE cost

\* batterySOC += (energy / batteryCapacity) * 100, capped at 100
ChargedSOC(veh, energy) ==
    LET soc == veh.batterySOC
        cap == veh.batteryCapacity
        sum == IF cap > 0
               THEN IF soc.k = "num" THEN Num(soc.v + (energy * 200) \div cap)
                    ELSE soc
               ELSE IF energy = 0 \/ soc.k = "nan" THEN NaN     \* 0/0, NaN + x
                    ELSE Inf                                     \* x/0, x > 0
    IN IF FloatGreater(sum, 100) THEN Num(Pct(100)) ELSE sum

ChargeVehicle(st, vehicleID, energy) ==
    LET j == VehicleIndex(st, vehicleID)
    IN IF j = 0 THEN st.vehicles
       ELSE [st.vehicles EXCEPT ![j].batterySOC = ChargedSOC(st.vehicles[j], energy)]

CompleteBooking(stationID, bookingID) ==
    LET s == getStation(stationID)
        st == stations[s]
        i == ActiveBookingIndex(st, bookingID)
    IN IF i = 0
       THEN /\ out' = Out(TRUE, 0, <<>>)
            /\ UNCHANGED <<currentWeather, stations, ended>>
       ELSE LET b == st.bookings[i]
                dockIndex == DockIndex(st, b.dockID)
            IN IF dockIndex = 0
               THEN /\ stations' = [stations EXCEPT ![s].bookings[i].isActive = FALSE]
                    /\ ended' = [ended EXCEPT ![s][i] = "Completed"]
                    /\ out' = Out(TRUE, 0, <<>>)
                    /\ UNCHANGED currentWeather
               ELSE LET d == st.docks[dockIndex]
                        energy == getAvailablePower(d.energySource, d.powerRating,
                                                    currentWeather) * b.duration
                        ratePerKWh == RatePerKWh(b.chargingType, b.startTime,
                                                 d.energySource)
                        cost == Cost(st, b.userID, energy, ratePerKWh)
                    IN /\ stations' = [stations EXCEPT ![s] =
                              [st EXCEPT
                                 !.bookings[i].isActive = FALSE,
                                 !.bookings[i].energyConsumed = energy,
                                 !.bookings[i].cost = cost,
                                 !.docks = FreeDock(st.docks, b.dockID),
                                 !.totalOccupiedTime[dockIndex] = @ + b.duration,
                                 !.vehicles = ChargeVehicle(st, b.vehicleID, energy)]]
                       /\ ended' = [ended EXCEPT ![s][i] = "Completed"]
                       /\ out' = Out(TRUE, 0, <<Note(b.userID, "completed", energy),
                                                Note(b.userID, "cost", cost)>>)
                       /\ UNCHANGED currentWeather

---------------------------------------------------------------------------
(* EV::dischargeToGrid, called from main, case 9 *)

\* energyToDischarge, in half kWh, for a request of energy kWh
EnergyToDischarge(veh, energy) ==
    LET soc == veh.batterySOC
        cap == veh.batteryCapacity
    IN IF soc.k = "num"
       THEN Min(2 * energy, (soc.v * cap) \div 200)
       ELSE IF soc.k = "inf" /\ cap > 0
            THEN 2 * energy      \* min(energy, +inf)
            ELSE 2 * energy      \* min(energy, NaN) returns its first argument

DischargedSOC(veh, energy) ==
    LET soc == veh.batterySOC
        cap == veh.batteryCapacity
        e == EnergyToDischarge(veh, energy)
        diff == IF cap > 0
                THEN IF soc.k = "num" THEN Num(soc.v - (e * 200) \div cap)
                     ELSE soc
                ELSE IF soc.k = "num"
                     THEN IF e < 0 THEN Inf ELSE NaN      \* -(e/0), e <= 0
                     ELSE IF soc.k = "inf" /\ e < 0 THEN Inf
                          ELSE NaN
    IN IF FloatLess(diff, 0) THEN Num(0) ELSE diff

\* mutant: the vehicle discharges whether or not it supports V2G
DischargeToGrid_IgnoresV2G(stationID, vehicleID, energy) ==
    LET s == getStation(stationID)
        st == stations[s]
        j == VehicleIndex(st, vehicleID)
    IN IF j = 0
       THEN /\ out' = Out(FALSE, 0, <<>>)
            /\ UNCHANGED <<currentWeather, stations, ended>>
       ELSE /\ stations' = [stations EXCEPT ![s].vehicles[j].batterySOC =
                               DischargedSOC(st.vehicles[j], energy)]
            /\ out' = Out(TRUE, EnergyToDischarge(st.vehicles[j], energy), <<>>)
            /\ UNCHANGED <<currentWeather, ended>>

DischargeToGrid(stationID, vehicleID, energy) ==
    LET s == getStation(stationID)
        st == stations[s]
        j == VehicleIndex(st, vehicleID)
    IN IF j = 0
       THEN /\ out' = Out(FALSE, 0, <<>>)
            /\ UNCHANGED <<currentWeather, stations, ended>>
       ELSE IF ~st.vehicles[j].supportsV2G
       THEN /\ out' = Out(TRUE, 0, <<>>)
            /\ UNCHANGED <<currentWeather, stations, ended>>
       ELSE /\ stations' = [stations EXCEPT ![s].vehicles[j].batterySOC =
                               DischargedSOC(st.vehicles[j], energy)]
            /\ out' = Out(TRUE, EnergyToDischarge(st.vehicles[j], energy), <<>>)
            /\ UNCHANGED <<currentWeather, ended>>

---------------------------------------------------------------------------
(* ChargingStation::generateReport, called from main, case 6.  The report  *)
(* is printed, not stored: the model returns it in the out variable.  A    *)
(* quotient of two floats is the pair <<numerator, denominator>>.          *)

RECURSIVE SumSeq(_)
SumSeq(seq) == IF seq = <<>> THEN 0 ELSE Head(seq) + SumSeq(Tail(seq))

RECURSIVE MaxEndTime(_, _, _)
\* latestEndTime once the loop has seen bookings i, i + 1, ...
MaxEndTime(st, i, latest) ==
    IF i > bookingCount(st) THEN latest
    ELSE LET endTime == st.bookings[i].startTime + st.bookings[i].duration
         IN MaxEndTime(st, i + 1, IF endTime > latest THEN endTime ELSE latest)

totalSystemTime(st) ==
    IF bookingCount(st) > 0
    THEN MaxEndTime(st, 1, st.systemStartTime) - st.systemStartTime ELSE 0

totalOccupied(st) == SumSeq([i \in 1..MAX_DOCKS |-> st.totalOccupiedTime[i]])

\* (totalOccupied / (totalSystemTime * MAX_DOCKS)) * 100, or 0
utilization(st) ==
    IF totalSystemTime(st) > 0
    THEN <<totalOccupied(st) * 100, totalSystemTime(st) * MAX_DOCKS>>
    ELSE <<0, 1>>

totalDuration(st) ==
    SumSeq([i \in 1..bookingCount(st) |->
               IF ~st.bookings[i].isActive THEN st.bookings[i].duration ELSE 0])

completedBookings(st) ==
    Cardinality({i \in 1..bookingCount(st) : ~st.bookings[i].isActive})

avgDuration(st) ==
    IF completedBookings(st) > 0
    THEN <<totalDuration(st), completedBookings(st)>> ELSE <<0, 1>>

\* the energy source of the first dock with the booking's dockID, "" if none
SourceOfBooking(st, b) ==
    LET j == DockIndex(st, b.dockID)
    IN IF j = 0 THEN "" ELSE st.docks[j].energySource

\* energy of the non-Active bookings on docks of the given source, in half kWh
EnergyBySource(st, src) ==
    SumSeq([i \in 1..bookingCount(st) |->
               IF ~st.bookings[i].isActive /\ SourceOfBooking(st, st.bookings[i]) = src
               THEN st.bookings[i].energyConsumed ELSE 0])

gridEnergy(st) == EnergyBySource(st, "Grid")
solarEnergy(st) == EnergyBySource(st, "Solar")

gridRatio(st) ==
    IF gridEnergy(st) + solarEnergy(st) > 0
    THEN <<gridEnergy(st) * 100, gridEnergy(st) + solarEnergy(st)>> ELSE <<0, 1>>

solarRatio(st) ==
    IF gridEnergy(st) + solarEnergy(st) > 0
    THEN <<solarEnergy(st) * 100, gridEnergy(st) + solarEnergy(st)>> ELSE <<0, 1>>

\* membershipLevel of the first user with the booking's userID, -1 if none
LevelOfBooking(st, b) ==
    LET hit == {j \in 1..userCount(st) : st.users[j].userID = b.userID}
    IN IF hit = {} THEN -1
       ELSE st.users[CHOOSE j \in hit : \A k \in hit : j <= k].membershipLevel

regularBookings(st) ==
    Cardinality({i \in 1..bookingCount(st) : LevelOfBooking(st, st.bookings[i]) = 0})

premiumBookings(st) ==
    Cardinality({i \in 1..bookingCount(st) :
                    LevelOfBooking(st, st.bookings[i]) \notin {-1, 0}})

totalRevenue(st) ==
    SumSeq([i \in 1..bookingCount(st) |->
               IF ~st.bookings[i].isActive THEN st.bookings[i].cost ELSE 0])

\* getCO2Emission: 0.5 kg per kWh of Grid energy, none for Solar; in quarter kg
co2Savings(st) == gridEnergy(st)

Report(st) ==
    [utilization |-> utilization(st), avgDuration |-> avgDuration(st),
     gridRatio |-> gridRatio(st), solarRatio |-> solarRatio(st),
     gridEnergy |-> gridEnergy(st), solarEnergy |-> solarEnergy(st),
     regularBookings |-> regularBookings(st),
     premiumBookings |-> premiumBookings(st),
     totalRevenue |-> totalRevenue(st), co2Savings |-> co2Savings(st)]

GenerateReport(stationID) ==
    /\ out' = [ok |-> TRUE, val |-> 0, notes |-> <<>>,
               report |-> Report(stations[getStation(stationID)])]
    /\ UNCHANGED <<currentWeather, stations, ended>>

---------------------------------------------------------------------------
(* Inputs *)

\* <<id, membershipLevel>>: user 1 is Premium, user 2 Regular
Premium1 == <<1, 1>>
Regular2 == <<2, 0>>
\* <<vehicleID, userID, soc, capacity, v2g>>
Vehicle1 == <<1, 1, 50, 40, FALSE>>
Vehicle2 == <<2, 2, 50, 10, TRUE>>
Vehicle2Low == <<2, 2, 10, 10, TRUE>>    \* SOC below 20 from the start
Vehicle2Zero == <<2, 2, 120, -5, TRUE>>  \* stored with SOC 100 and capacity 0
Vehicle3 == <<3, 2, 50, 40, FALSE>>      \* user 2's second car, without V2G

\* main, case 3: the power rating requested with a charging type
PowerOf(chargingType) ==
    CASE chargingType = 1 -> SLOW
      [] chargingType = 2 -> MEDIUM
      [] chargingType = 3 -> FAST
      [] chargingType = 4 -> SOLAR

\* requests <<userID, vehicleID, startTime, duration, chargingType>>
Requests(pairs, times, durations, types) ==
    {<<p[1], p[2], t, d, c>> : p \in pairs, t \in times, d \in durations, c \in types}

\* the discharge leaves the vehicle's SOC within the explored range
SocWithinBound(s, vehicleID, energy) ==
    LET st == stations[s]
        j == VehicleIndex(st, vehicleID)
        soc == DischargedSOC(st.vehicles[j], energy)
    IN j # 0 => (soc.k = "num" => soc.v <= Pct(MaxSocPercent))

(* One step of main's menu loop, its inputs drawn from the given sets; a     *)
(* station's ledger is explored up to maxBookings bookings.                  *)
NextOn(stationIDs, users, vehicles, requests, bookingIDs, discharges, weathers, maxBookings) ==
    \/ \E s \in stationIDs, u \in users : RegisterUser(s, u[1], u[2])
    \/ \E s \in stationIDs, v \in vehicles :
          RegisterVehicle(s, v[1], v[2], v[3], v[4], v[5])
    \/ \E s \in stationIDs, r \in requests :
          /\ bookingCount(stations[getStation(s)]) < maxBookings
          /\ CreateBooking(s, r[1], r[2], r[3], r[4], PowerOf(r[5]), r[5])
    \/ \E s \in stationIDs, b \in bookingIDs : CancelBooking(s, b)
    \/ \E s \in stationIDs, b \in bookingIDs : CompleteBooking(s, b)
    \/ \E s \in stationIDs, x \in discharges :
          /\ SocWithinBound(getStation(s), x[1], x[2])
          /\ DischargeToGrid(s, x[1], x[2])
    \/ \E w \in weathers : SetWeather(w)

---------------------------------------------------------------------------
(* Spec: the booking lifecycle of one station.  The Premium user's Fast     *)
(* requests compete for dock 5 at touching, overlapping and distant         *)
(* intervals; a Solar request of the Regular user, deferred out of the peak *)
(* window, shares the station with them.                                    *)

LifecycleRequests ==
    Requests({<<1, 1>>}, {9, 12, 13}, {1}, {3})
        \cup {<<1, 1, 12, 2, 3>>, <<2, 2, 12, 1, 4>>}
        \cup {<<2, 2, 24, 1, 3>>, <<1, 2, 9, 1, 3>>}
        \cup {<<1, 1, -1, 1, 3>>, <<1, 1, 9, 0, 3>>}

Next ==
    NextOn({1}, {Premium1, Regular2}, {Vehicle1, Vehicle2}, LifecycleRequests, 0..MaxBookings, {<<1, 100>>}, {0, 2}, MaxBookings)

Spec == Init /\ [][Next]_vars

(* SpecPeak: one request per ledger, at and around the peak window, by the  *)
(* Premium user and by the Regular user, whose vehicle's SOC the discharges *)
(* lower below 20, raise above 100 or (capacity 0) turn into NaN.           *)

PeakRequests ==
    Requests({<<1, 1>>, <<2, 2>>}, {9, 12, 13, 18}, {1}, {1})
        \cup {<<2, 2, 24, 1, 3>>, <<1, 2, 9, 1, 3>>}

\* <<vehicleID, energy>>: vehicle 1 does not support V2G, vehicle 2 does
PeakDischarges == {<<1, 100>>, <<2, 100>>, <<2, 0>>, <<2, -4>>}

NextPeak ==
    NextOn({1}, {Premium1, Regular2}, {Vehicle1, Vehicle2, Vehicle2Zero}, PeakRequests, 0..MaxBookingsShallow, PeakDischarges, {0}, MaxBookingsShallow)

SpecPeak == Init /\ [][NextPeak]_vars

(* SpecBilling: one booking per ledger, of every charging type, in and out  *)
(* of the peak window, by a Premium and by a Regular user, completed under  *)
(* every weather.                                                           *)

BillingRequests ==
    Requests({<<1, 1>>}, {9, 13}, {2}, {1, 2, 3, 4})
        \cup {<<2, 2, 9, 2, 3>>, <<2, 2, 13, 2, 4>>}

NextBilling ==
    NextOn({1}, {Premium1, Regular2}, {Vehicle1, Vehicle2Low}, BillingRequests, 0..MaxBookingsShallow, {<<1, 100>>}, {0, 1, 2}, MaxBookingsShallow)

SpecBilling == Init /\ [][NextBilling]_vars

(* SpecCapacity: one user books dock 5 again and again, each booking being *)
(* cancelled before the next (the first and the last may be completed      *)
(* instead), until the ledger holds MAX_BOOKINGS bookings and beyond.       *)

CapacityRequest == <<1, 1, 9, 1, 3>>

NextCapacity ==
    \/ RegisterUser(1, Premium1[1], Premium1[2])
    \/ RegisterVehicle(1, Vehicle1[1], Vehicle1[2], Vehicle1[3], Vehicle1[4], Vehicle1[5])
    \/ CreateBooking(1, 1, 1, 9, 1, PowerOf(3), 3)
    \/ \E b \in 1..MAX_BOOKINGS : CancelBooking(1, b)
    \/ \E b \in {1, MAX_BOOKINGS} : CompleteBooking(1, b)

SpecCapacity == Init /\ [][NextCapacity]_vars

(* SpecNetwork: the same user, vehicle and request at stations 1 and 2,    *)
(* and under the invalid station ID 4, which getStation maps to station 1. *)

NetworkStationIDs == {1, 2, MAX_STATIONS + 1}
NetworkRequests == {<<2, 2, 9, 1, 3>>}
NetworkDischarges == {<<2, 100>>}

\* an operation main forwards to the station it gets for ID s
NetworkOp(s) ==
    NextOn({s}, {Regular2}, {Vehicle2}, NetworkRequests, 0..MaxBookingsShallow, NetworkDischarges, {}, MaxBookingsShallow)

NextNetwork ==
    NextOn(NetworkStationIDs, {Regular2}, {Vehicle2}, NetworkRequests, 0..MaxBookingsShallow, NetworkDischarges, {0, 2}, MaxBookingsShallow)

SpecNetwork == Init /\ [][NextNetwork]_vars

(* SpecReport: the Premium user books Grid dock 5 and Solar dock 2, for 1  *)
(* and for 2 hours, cancels or completes, and asks for the report.         *)

ReportRequests == {<<1, 1, 9, 1, 3>>, <<1, 1, 12, 2, 3>>, <<1, 1, 9, 2, 4>>}

NextReport ==
    \/ NextOn({1}, {Premium1}, {Vehicle1}, ReportRequests, 0..MaxBookings, {<<1, 100>>}, {0, 1}, MaxBookings)
    \/ GenerateReport(1)

SpecReport == Init /\ [][NextReport]_vars

(* SpecDischarge: station 2 registers the Regular user and the user's      *)
(* two cars, one with V2G and one without, the user books, and energy is   *)
(* discharged from either car, 50, 0 or -2 kWh at a time.                  *)

DischargeStationIDs == {2}
DischargeRequests == {<<2, 2, 9, 1, 3>>}
Discharges == {<<3, 100>>, <<2, 100>>, <<2, 0>>, <<2, -4>>}

NextDischarge ==
    NextOn(DischargeStationIDs, {Regular2}, {Vehicle2, Vehicle3}, DischargeRequests, 0..MaxBookingsShallow, Discharges, {0}, MaxBookingsShallow)

SpecDischarge == Init /\ [][NextDischarge]_vars

(* SpecUtilization: the Premium user books the Fast dock for 14:00, one     *)
(* hour, and the Slow dock for 9:00, six hours, in either order, cancels or *)
(* completes, and asks for the report.                                      *)

UtilizationRequests == {<<1, 1, 14, 1, 3>>, <<1, 1, 9, 6, 1>>}

NextUtilization ==
    \/ NextOn({1}, {Premium1}, {Vehicle1}, UtilizationRequests, 0..MaxBookings, {<<1, 100>>}, {0, 2}, MaxBookings)
    \/ GenerateReport(1)

SpecUtilization == Init /\ [][NextUtilization]_vars

---------------------------------------------------------------------------
(* Vocabulary of the properties *)

Bookings(s) == stations[s].bookings
ActiveIDs(s) == {i \in 1..Len(Bookings(s)) : Bookings(s)[i].isActive}
EndTime(b) == b.startTime + b.duration

\* two half-open intervals [startTime, startTime + duration) share a point
Overlap(a, b) == ~(EndTime(a) <= b.startTime \/ EndTime(b) <= a.startTime)

\* the Active bookings of station s that reference the dock with this ID
ActiveOnDock(s, dockID) == {i \in ActiveIDs(s) : Bookings(s)[i].dockID = dockID}

---------------------------------------------------------------------------
(* C1: in every reachable state, for every dock of every station, any two   *)
(* distinct Active bookings that reference the dock have non-overlapping    *)
(* half-open intervals [startTime, startTime + duration).                   *)
C1_NoOverlap ==
    \A s \in StationIDs : \A i, j \in ActiveIDs(s) :
        (i # j /\ Bookings(s)[i].dockID = Bookings(s)[j].dockID)
            => ~Overlap(Bookings(s)[i], Bookings(s)[j])

\* two Active bookings whose intervals overlap coexist, on different docks
C1_Witness ==
    \E s \in StationIDs : \E i, j \in ActiveIDs(s) :
        /\ i # j
        /\ Overlap(Bookings(s)[i], Bookings(s)[j])
        /\ Bookings(s)[i].dockID # Bookings(s)[j].dockID

(* C2: in every reachable state, for every dock: isOccupied is true iff     *)
(* exactly one Active booking references the dock and false iff none does;  *)
(* when occupied, currentVehicleID is that booking's vehicleID, and when    *)
(* free it is -1.                                                           *)
C2_OccupancyConsistent ==
    \A s \in StationIDs : \A j \in 1..MAX_DOCKS :
        LET d == stations[s].docks[j]
            refs == ActiveOnDock(s, d.dockID)
        IN /\ d.isOccupied <=> Cardinality(refs) = 1
           /\ ~d.isOccupied <=> refs = {}
           /\ d.isOccupied =>
                 \A i \in refs : d.currentVehicleID = Bookings(s)[i].vehicleID
           /\ ~d.isOccupied => d.currentVehicleID = -1

\* an occupied dock beside a dock that a cancellation has freed
C2_Witness ==
    \E s \in StationIDs : \E i, k \in 1..Len(Bookings(s)) :
        /\ Bookings(s)[i].isActive
        /\ ended[s][k] = "Cancelled"
        /\ Bookings(s)[i].dockID # Bookings(s)[k].dockID
        /\ stations[s].docks[DockIndex(stations[s], Bookings(s)[i].dockID)].isOccupied
        /\ ~stations[s].docks[DockIndex(stations[s], Bookings(s)[k].dockID)].isOccupied

---------------------------------------------------------------------------
(* Vocabulary of the claims about createBooking *)

\* the request r = <<userID, vehicleID, startTime, duration, chargingType>>
\* is the one this step's createBooking call carries
Creates(r) == CreateBooking(1, r[1], r[2], r[3], r[4], PowerOf(r[5]), r[5])

\* the step appended a booking to the ledger of station 1: the call accepted
Accepted == Len(stations'[1].bookings) = Len(stations[1].bookings) + 1
NewestBooking == stations'[1].bookings[Len(stations'[1].bookings)]

InPeakWindow(t) == 12 <= t /\ t < 18

HasPremiumUser(uID) ==
    \E i \in 1..Len(stations[1].users) :
        stations[1].users[i].userID = uID /\ stations[1].users[i].membershipLevel = 1

\* some vehicle with this ID has a SOC that is a number below 20 percent
HasLowSoc(vID) ==
    \E j \in 1..Len(stations[1].vehicles) :
        LET v == stations[1].vehicles[j]
        IN v.vehicleID = vID /\ v.batterySOC.k = "num" /\ v.batterySOC.v < 80

Critical(r) == HasPremiumUser(r[1]) \/ HasLowSoc(r[2])
EffectiveStart(r) == IF InPeakWindow(r[3]) /\ ~Critical(r) THEN 18 ELSE r[3]

(* C3: every accepted createBooking stores start time 18 when the requested  *)
(* start lies in [12, 18) and the request is not critical (the user is not   *)
(* Premium and the vehicle's SOC is not below 20), and the requested start   *)
(* time otherwise; 12 counts as peak, 18 does not.                           *)
C3_PeakDeferral ==
    [][\A r \in PeakRequests :
          (Accepted /\ Creates(r)) =>
              /\ NewestBooking.startTime = EffectiveStart(r)
              /\ ~Critical(r) => ~InPeakWindow(NewestBooking.startTime)]_vars

\* the Regular user's request for 12:00 was accepted and is stored at 18:00
C3_Witness ==
    /\ Len(stations[1].bookings) = 1
    /\ stations[1].systemStartTime = 12
    /\ stations[1].bookings[1].startTime = 18
    /\ stations[1].bookings[1].userID = 2
    /\ out.ok /\ Len(out.notes) = 2 /\ out.notes[1].msg = "deferred"

---------------------------------------------------------------------------
\* the request passes validation: capacity, time range, user/vehicle link
Validated(r) ==
    /\ Len(stations[1].bookings) < MAX_BOOKINGS
    /\ 0 <= r[3] /\ r[3] < 24 /\ r[4] > 0
    /\ \E i \in 1..Len(stations[1].users) : stations[1].users[i].userID = r[1]
    /\ \E j \in 1..Len(stations[1].vehicles) :
          /\ stations[1].vehicles[j].vehicleID = r[2]
          /\ stations[1].vehicles[j].userID = r[1]

\* s1 < s2 + d2 and s2 < s1 + d1
Conflict(s1, d1, s2, d2) == s1 < s2 + d2 /\ s2 < s1 + d1

\* kW the dock can deliver under the current weather, doubled
WeatherAdjustedPower(d) ==
    IF d.energySource = "Grid" THEN 2 * d.powerRating
    ELSE IF currentWeather = "SUNNY" THEN 2 * d.powerRating
    ELSE IF currentWeather = "CLOUDY" THEN d.powerRating
    ELSE 0

\* the dock meets conditions (a), (b) and (c) for the request
CandidateDock(d, r) ==
    /\ \A i \in ActiveOnDock(1, d.dockID) :
          ~Conflict(EffectiveStart(r), r[4],
                    Bookings(1)[i].startTime, Bookings(1)[i].duration)
    /\ WeatherAdjustedPower(d) >= 2 * PowerOf(r[5])
    /\ r[5] = 4 => d.energySource = "Solar"

(* C4: a createBooking request that passes validation is accepted if and    *)
(* only if some dock has no Active booking whose interval overlaps the      *)
(* request's effective interval, has weather-adjusted power at least the    *)
(* desired power, and is Solar-backed if the charging type is Solar; so a   *)
(* request that only touches the Active booking of a dock is accepted.      *)
C4_AcceptedIffCandidate ==
    [][\A r \in LifecycleRequests :
          (Creates(r) /\ Validated(r)) =>
              (Accepted <=> \E j \in 1..MAX_DOCKS :
                               CandidateDock(stations[1].docks[j], r))]_vars

---------------------------------------------------------------------------
(* The scenario of C5: Premium user 1, vehicle 1 (SOC 50, capacity 40, no   *)
(* V2G), a Medium request of 22 kW for 13:00, two hours long.               *)

MediumAtPeak == <<1, 1, 13, 2, 2>>

ScenarioSetUp ==
    /\ ~stations[1].docks[3].isOccupied        \* the Medium Grid dock
    /\ HasPremiumUser(1)
    /\ \E j \in 1..Len(stations[1].vehicles) :
          stations[1].vehicles[j] = NewVehicle(1, 1, 50, 40, FALSE)

\* booking i of station 1 was made for the scenario's request
IsScenarioBooking(i) ==
    LET b == Bookings(1)[i]
    IN /\ b.userID = 1 /\ b.vehicleID = 1 /\ b.chargingType = 2
       /\ b.startTime = 13 /\ b.duration = 2

\* this step completes booking i
Completes(i) == ended[1][i] = "Active" /\ ended'[1][i] = "Completed"

SourceOfDock(dockID) == stations[1].docks[dockID].energySource

\* 44 kWh in half kWh, and 13.464 and 12.1176 dollars in 1/800000 dollar
Energy44 == 2 * 44
Cost13464 == 13464 * 800
Cost121176 == 121176 * 80

\* what every createBooking step shows: a longer ledger or a failure (it
\* follows from Creates(r), and is cheaper to evaluate on the other steps)
CallReturns == ~out'.ok \/ Len(ended'[1]) # Len(ended[1])

\* C5 as the specification states it: the booking is placed on a Grid-backed
\* dock and completing it records energy 44 and cost 13.464
C5_OnGridDock ==
    [][/\ (ScenarioSetUp /\ Creates(MediumAtPeak)) =>
             /\ Accepted
             /\ NewestBooking.startTime = 13
             /\ SourceOfDock(NewestBooking.dockID) = "Grid"
       /\ \A i \in 1..Len(Bookings(1)) :
             (Completes(i) /\ IsScenarioBooking(i)) =>
                 /\ stations'[1].bookings[i].energyConsumed = Energy44
                 /\ stations'[1].bookings[i].cost = Cost13464]_vars

(* C5: with Premium user 1 and vehicle 1 (SOC 50, capacity 40), a Medium    *)
(* request for 13:00, 2 hours, 22 kW, made while the Medium Grid dock 3 is  *)
(* free, is accepted with stored start 13; it is placed on the Medium Solar *)
(* dock 4 when the weather is Sunny and dock 4 is free, and on Grid dock 3  *)
(* otherwise.  Completed on dock 3 it records energy 44 and cost 13.464; on *)
(* dock 4 it records the energy the weather at completion allows (44 Sunny, *)
(* 22 Cloudy, 0 Night), at rate 0.3*1.2*0.9, so cost 12.1176 when Sunny.    *)
C5_SolarDockWhenSunny ==
    [][/\ (CallReturns /\ ScenarioSetUp /\ Creates(MediumAtPeak)) =>
             /\ Accepted
             /\ NewestBooking.startTime = 13
             /\ NewestBooking.dockID =
                   IF currentWeather = "SUNNY" /\ ~stations[1].docks[4].isOccupied
                   THEN 4 ELSE 3
       /\ \A i \in 1..Len(Bookings(1)) :
             (Completes(i) /\ IsScenarioBooking(i)) =>
                 LET b == stations'[1].bookings[i]
                 IN /\ b.dockID = 3 =>
                          b.energyConsumed = Energy44 /\ b.cost = Cost13464
                    /\ b.dockID = 4 =>
                          /\ b.energyConsumed =
                                (CASE currentWeather = "SUNNY" -> Energy44
                                   [] currentWeather = "CLOUDY" -> Energy44 \div 2
                                   [] currentWeather = "NIGHT" -> 0)
                          /\ b.cost = (Cost121176 \div Energy44) * b.energyConsumed]_vars

\* the scenario's booking was placed on Solar dock 4 and completed in the sun
C5_Witness ==
    /\ Len(Bookings(1)) = 1 /\ IsScenarioBooking(1)
    /\ ended[1][1] = "Completed"
    /\ Bookings(1)[1].dockID = 4
    /\ Bookings(1)[1].energyConsumed = Energy44
    /\ Bookings(1)[1].cost = Cost121176

---------------------------------------------------------------------------
(* Vocabulary of the billing claim.  A cost in dollars is energy in kWh     *)
(* times a base in dollars times four factors; with energy in half kWh, the *)
(* base in cents and the factors as numerators over 20, 5, 10 and 20, the   *)
(* product over 5 is the cost in 1/800000 dollar.                           *)

BaseCents(chargingType) ==
    CASE chargingType = 1 -> 20
      [] chargingType = 2 -> 30
      [] chargingType = 3 -> 40
      [] chargingType = 4 -> 15

SolarTypeFactor(b) == IF b.chargingType = 4 THEN 17 ELSE 20          \* 0.85
PeakFactor(b) == IF InPeakWindow(b.startTime) THEN 6 ELSE 5          \* 1.2
SourceFactor(b) == IF SourceOfDock(b.dockID) = "Solar" THEN 9 ELSE 10 \* 0.9
MemberFactor(b) == IF HasPremiumUser(b.userID) THEN 17 ELSE 20       \* 0.85

BilledEnergy(b) == WeatherAdjustedPower(stations[1].docks[b.dockID]) * b.duration

BilledCost(b) ==
    (BilledEnergy(b) * BaseCents(b.chargingType) * SolarTypeFactor(b)
        * PeakFactor(b) * SourceFactor(b) * MemberFactor(b)) \div 5

(* C6: whenever an Active booking is completed, the energy recorded is the  *)
(* available power of its dock times its duration, and the cost recorded is *)
(* that energy times the base rate of its charging type (Slow 0.2, Medium   *)
(* 0.3, Fast 0.4, Solar 0.15), times 0.85 for the Solar type, 1.2 for a     *)
(* stored start in [12, 18), 0.9 on a Solar dock and 0.85 for a Premium     *)
(* user; the step notifies the user of both.                                *)
C6_BillingFormula ==
    [][\A i \in 1..Len(Bookings(1)) :
          Completes(i) =>
              LET b == Bookings(1)[i]
                  done == stations'[1].bookings[i]
              IN /\ done.energyConsumed = BilledEnergy(b)
                 /\ done.cost = BilledCost(b)
                 /\ out'.notes = <<Note(b.userID, "completed", BilledEnergy(b)),
                                   Note(b.userID, "cost", BilledCost(b))>>]_vars

\* a Solar-type booking of the Premium user at peak, completed in the sun:
\* 7 kW for 2 hours at 0.15 * 0.85 * 1.2 * 0.9 * 0.85 costs 1.63863 dollars
C6_Witness ==
    \E i \in 1..Len(Bookings(1)) :
        LET b == Bookings(1)[i]
        IN /\ ended[1][i] = "Completed"
           /\ b.chargingType = 4 /\ b.startTime = 13 /\ b.userID = 1
           /\ SourceOfDock(b.dockID) = "Solar"
           /\ b.energyConsumed = 2 * 7 * 2
           /\ b.cost = 163863 * 8

---------------------------------------------------------------------------
(* Vocabulary of the claims about cancelBooking and completeBooking calls *)

\* this step cancels booking i
Cancels(i) == ended[1][i] = "Active" /\ ended'[1][i] = "Cancelled"

TimeToStart(b) == b.startTime - stations[1].systemStartTime

FlatPenalty(timeToStart) ==
    CASE timeToStart < 1 -> 5
      [] 1 <= timeToStart /\ timeToStart < 4 -> 2
      [] timeToStart >= 4 -> 0

(* C7: cancelling an Active booking notifies its user of a flat penalty     *)
(* that depends only on timeToStart = startTime - systemStartTime: 5 if     *)
(* timeToStart < 1 (negative values included), 2 if 1 <= timeToStart < 4,   *)
(* and 0 if timeToStart >= 4.                                               *)
C7_CancellationPenalty ==
    [][\A i \in 1..Len(Bookings(1)) :
          Cancels(i) =>
              out'.notes = <<Note(Bookings(1)[i].userID, "cancelled",
                                  FlatPenalty(TimeToStart(Bookings(1)[i])))>>]_vars

\* a booking that started exactly one hour after systemStartTime was
\* cancelled at penalty 2, after one cancelled at penalty 5
C7_Witness ==
    /\ Len(Bookings(1)) = 2
    /\ ended[1] = <<"Cancelled", "Cancelled">>
    /\ TimeToStart(Bookings(1)[1]) = 0
    /\ TimeToStart(Bookings(1)[2]) = 1
    /\ out.notes = <<Note(Bookings(1)[2].userID, "cancelled", 2)>>

---------------------------------------------------------------------------
\* C8 as the specification states it: every registered vehicle's batterySOC
\* is a number within [0, 100]
C8_SocWithinRange ==
    \A s \in StationIDs : \A j \in 1..Len(stations[s].vehicles) :
        LET soc == stations[s].vehicles[j].batterySOC
        IN soc.k = "num" /\ 0 <= soc.v /\ soc.v <= 4 * 100

---------------------------------------------------------------------------
DockOf(b) == stations'[1].docks[b.dockID]

(* C9: cancelling a booking leaves its dock unoccupied with currentVehicleID *)
(* -1 and the booking Cancelled with cost and energyConsumed 0; a Cancelled  *)
(* booking stays Cancelled with cost and energy 0, and a completeBooking     *)
(* call on its ID changes nothing in the station.                            *)
C9_CancelledIsFinal ==
    [][\A i \in 1..Len(Bookings(1)) :
          /\ Cancels(i) =>
                /\ ~DockOf(Bookings(1)[i]).isOccupied
                /\ DockOf(Bookings(1)[i]).currentVehicleID = -1
                /\ ~stations'[1].bookings[i].isActive
                /\ stations'[1].bookings[i].cost = 0
                /\ stations'[1].bookings[i].energyConsumed = 0
          /\ ended[1][i] = "Cancelled" =>
                /\ ended'[1][i] = "Cancelled"
                /\ stations'[1].bookings[i] = Bookings(1)[i]
                /\ Bookings(1)[i].cost = 0 /\ Bookings(1)[i].energyConsumed = 0
                /\ CompleteBooking(1, i) => UNCHANGED <<stations, ended>>]_vars

\* booking 1 was cancelled, and a booking made on its dock afterwards was
\* completed: booking 1 is still Cancelled and unbilled
C9_Witness ==
    /\ Len(Bookings(1)) = 2
    /\ ended[1] = <<"Cancelled", "Completed">>
    /\ Bookings(1)[1].dockID = Bookings(1)[2].dockID
    /\ Bookings(1)[1].cost = 0 /\ Bookings(1)[2].cost > 0
    /\ ~stations[1].docks[Bookings(1)[1].dockID].isOccupied

(* C10: completeBooking and cancelBooking called with a booking ID that is  *)
(* not in the station, or is that of a Completed booking, leave the station *)
(* (ledger, docks, vehicles, occupied hours) unchanged and notify nobody.   *)
C10_NoOpOnMissingOrCompleted ==
    [][\A id \in 0..MaxBookings :
          (/\ CompleteBooking(1, id) \/ CancelBooking(1, id)
           /\ \/ id \notin 1..Len(Bookings(1))
              \/ ended[1][id] = "Completed")
              => UNCHANGED <<stations, ended>> /\ out'.notes = <<>>]_vars

\* booking 1 is Completed, billed once, and the newer booking 2 is Active on
\* the dock booking 1 used; the last call notified nobody
C10_Witness ==
    /\ Len(Bookings(1)) = 2
    /\ ended[1] = <<"Completed", "Active">>
    /\ Bookings(1)[1].dockID = Bookings(1)[2].dockID
    /\ stations[1].docks[Bookings(1)[2].dockID].isOccupied
    /\ stations[1].totalOccupiedTime[Bookings(1)[1].dockID] = Bookings(1)[1].duration
    /\ out.notes = <<>>

---------------------------------------------------------------------------
\* C11 as the specification states it: while the ledger is non-empty,
\* systemStartTime is the stored startTime of booking 1, and it never changes
\* once booking 1 exists
C11_AnchorIsFirstStart ==
    [][/\ Len(stations'[1].bookings) > 0 =>
             stations'[1].systemStartTime = stations'[1].bookings[1].startTime
       /\ Len(Bookings(1)) > 0 =>
             stations'[1].systemStartTime = stations[1].systemStartTime]_vars

---------------------------------------------------------------------------
\* the IDs of the docks that meet conditions (a), (b) and (c) for the request
CandidateIDs(r) ==
    {stations[1].docks[j].dockID :
        j \in {k \in 1..MAX_DOCKS : CandidateDock(stations[1].docks[k], r)}}

SolarCandidateIDs(r) == {d \in CandidateIDs(r) : SourceOfDock(d) = "Solar"}

Lowest(ids) == CHOOSE d \in ids : \A e \in ids : d <= e

\* the dock the selection rule names, given at least one candidate
DockByRule(r) ==
    IF InPeakWindow(EffectiveStart(r)) /\ r[5] # 4 /\ SolarCandidateIDs(r) # {}
    THEN Lowest(SolarCandidateIDs(r))
    ELSE Lowest(CandidateIDs(r))

\* C12 as the specification states it: a validated request is rejected iff it
\* has no candidate dock, and otherwise gets the lowest-ID Solar candidate when
\* its effective start is in [12, 18), its type is not Solar and such a
\* candidate exists, and the lowest-ID candidate in every other case
C12_DockByRule ==
    [][\A r \in LifecycleRequests :
          (Validated(r) /\ Creates(r)) =>
              /\ Accepted => CandidateIDs(r) # {}
              /\ CandidateIDs(r) # {} =>
                    Accepted /\ NewestBooking.dockID = DockByRule(r)]_vars

---------------------------------------------------------------------------
\* the request fails one of createBooking's input checks
Invalid(r) ==
    \/ r[3] < 0 \/ r[3] >= 24 \/ r[4] <= 0
    \/ ~\E i \in 1..Len(stations[1].users) :
           stations[1].users[i].userID = r[1] /\ stations[1].users[i].isRegistered
    \/ ~\E j \in 1..Len(stations[1].vehicles) : stations[1].vehicles[j].vehicleID = r[2]
    \/ \E j \in 1..Len(stations[1].vehicles) :
           /\ stations[1].vehicles[j].vehicleID = r[2]
           /\ stations[1].vehicles[j].userID # r[1]

(* C13: createBooking returns false, notifies nobody and leaves the station *)
(* (ledger, bookingCount, docks, systemStartTime, vehicles) unchanged when   *)
(* startTime < 0, startTime >= 24, duration <= 0, the user is not            *)
(* registered, the vehicle does not exist, or the vehicle belongs to         *)
(* another user.                                                             *)
C13_InvalidRequestRejected ==
    [][\A r \in LifecycleRequests :
          (Invalid(r) /\ Creates(r)) =>
              /\ UNCHANGED <<stations, ended, currentWeather>>
              /\ ~out'.ok /\ out'.notes = <<>>]_vars

\* with both users, both vehicles and an Active booking in the station, the
\* last call returned false and notified nobody
C13_Witness ==
    /\ Len(stations[1].users) = 2 /\ Len(stations[1].vehicles) = 2
    /\ Len(Bookings(1)) = 1 /\ ended[1] = <<"Active">>
    /\ stations[1].systemStartTime = 9
    /\ ~out.ok /\ out.notes = <<>>

---------------------------------------------------------------------------
(* C14: a station's bookingCount never exceeds MAX_BOOKINGS = 20 and never   *)
(* decreases; a createBooking call made when 20 bookings exist returns false *)
(* and changes nothing, whatever the status of the existing bookings.        *)
C14_LedgerCapacity ==
    [][/\ Len(stations'[1].bookings) <= MAX_BOOKINGS
       /\ Len(stations'[1].bookings) >= Len(Bookings(1))
       /\ (Len(Bookings(1)) = MAX_BOOKINGS /\ Creates(CapacityRequest)) =>
             /\ UNCHANGED <<stations, ended, currentWeather>>
             /\ ~out'.ok /\ out'.notes = <<>>]_vars

\* the ledger holds 20 bookings, none of them Active, dock 5 is free, and the
\* last call returned false
C14_Witness ==
    /\ Len(Bookings(1)) = MAX_BOOKINGS
    /\ ActiveIDs(1) = {}
    /\ ended[1][1] = "Completed" /\ ended[1][MAX_BOOKINGS] = "Cancelled"
    /\ ~stations[1].docks[5].isOccupied
    /\ ~out.ok /\ out.notes = <<>>

---------------------------------------------------------------------------
\* vehicle w is vehicle v, but for its batterySOC
SameButSoc(v, w) == [w EXCEPT !.batterySOC = v.batterySOC] = v

SupportsV2G(s, vID) ==
    \E j \in 1..Len(stations[s].vehicles) :
        stations[s].vehicles[j].vehicleID = vID /\ stations[s].vehicles[j].supportsV2G

(* C15: dischargeToGrid on a vehicle without V2G returns 0 and changes      *)
(* nothing; on any vehicle it changes at most that vehicle's batterySOC: no *)
(* dock, booking, occupied-hours total, systemStartTime or other vehicle of *)
(* any station changes, and the weather does not change.                    *)
C15_DischargeFrame ==
    [][\A t \in DischargeStationIDs, x \in Discharges :
          (out'.notes = <<>> /\ DischargeToGrid(t, x[1], x[2])) =>
              /\ UNCHANGED <<ended, currentWeather>>
              /\ \A s \in StationIDs :
                    /\ [stations'[s] EXCEPT !.vehicles = stations[s].vehicles]
                          = stations[s]
                    /\ Len(stations'[s].vehicles) = Len(stations[s].vehicles)
                    /\ \A j \in 1..Len(stations[s].vehicles) :
                          LET v == stations[s].vehicles[j]
                              w == stations'[s].vehicles[j]
                          IN /\ SameButSoc(v, w)
                             /\ (s # t \/ v.vehicleID # x[1]) => w = v
              /\ ~SupportsV2G(t, x[1]) => UNCHANGED stations /\ out'.val = 0]_vars

\* vehicle 2 has an Active booking and has just discharged 5 kWh, its SOC
\* falling from 50 to 0
C15_Witness ==
    /\ Len(Bookings(2)) = 1 /\ ended[2] = <<"Active">>
    /\ Bookings(2)[1].vehicleID = 2
    /\ stations[2].docks[Bookings(2)[1].dockID].currentVehicleID = 2
    /\ \E j \in 1..Len(stations[2].vehicles) :
          /\ stations[2].vehicles[j].vehicleID = 2
          /\ stations[2].vehicles[j].batterySOC = Num(0)
    /\ out.ok /\ out.val = 2 * 5

---------------------------------------------------------------------------
\* batterySOC of the vehicle with this ID, in station 1 before and after the step
SocBefore(vID) ==
    stations[1].vehicles[CHOOSE j \in 1..Len(stations[1].vehicles) :
                            stations[1].vehicles[j].vehicleID = vID].batterySOC
SocAfter(vID) ==
    stations'[1].vehicles[CHOOSE j \in 1..Len(stations'[1].vehicles) :
                             stations'[1].vehicles[j].vehicleID = vID].batterySOC
CapacityOf(vID) ==
    stations[1].vehicles[CHOOSE j \in 1..Len(stations[1].vehicles) :
                            stations[1].vehicles[j].vehicleID = vID].batteryCapacity

\* kW of the dock under a given weather, doubled
PowerUnder(d, weather) ==
    IF d.energySource = "Grid" \/ weather = "SUNNY" THEN 2 * d.powerRating
    ELSE IF weather = "CLOUDY" THEN d.powerRating
    ELSE 0

(* C16: the energy completeBooking records is the available power of the    *)
(* booking's dock under the weather at the moment of completion (Grid: the  *)
(* rating; Solar: the rating if Sunny, half if Cloudy, zero at Night) times *)
(* the duration; the cost and the SOC gain follow that energy, so a weather *)
(* change after creation changes them for a booking on a Solar dock.        *)
C16_EnergyAtCompletionWeather ==
    [][\A i \in 1..Len(Bookings(1)) :
          Completes(i) =>
              LET b == Bookings(1)[i]
                  d == stations[1].docks[b.dockID]
                  done == stations'[1].bookings[i]
                  full == PowerUnder(d, "SUNNY") * b.duration
                  energy == PowerUnder(d, currentWeather) * b.duration
                  gain == (energy * 200) \div CapacityOf(b.vehicleID)
              IN /\ done.energyConsumed = energy
                 /\ done.cost = BilledCost(b)
                 /\ (d.energySource = "Solar" /\ currentWeather # "SUNNY")
                       => done.energyConsumed < full
                 /\ SocAfter(b.vehicleID).v =
                       Min(4 * 100, SocBefore(b.vehicleID).v + gain)]_vars

\* a Medium booking that needed the Sunny 22 kW of Solar dock 4 to be created
\* was completed under Cloudy weather: 11 kW for 2 hours
C16_Witness ==
    /\ Len(Bookings(1)) = 1 /\ ended[1] = <<"Completed">>
    /\ Bookings(1)[1].chargingType = 2 /\ Bookings(1)[1].dockID = 4
    /\ Bookings(1)[1].energyConsumed = 2 * 11 * 2
    /\ Bookings(1)[1].cost = Cost121176 \div 2
    /\ currentWeather = "CLOUDY"

---------------------------------------------------------------------------
\* the station an ID given to the menu designates
Designated(s) == IF s \in StationIDs THEN s ELSE 1

(* C17: registerUser, registerVehicle, createBooking, cancelBooking,        *)
(* completeBooking and dischargeToGrid applied to one station leave every   *)
(* other station (users, vehicles, docks, ledger, occupied-hours totals,    *)
(* systemStartTime) unchanged, and leave the global weather unchanged.      *)
C17_StationsIndependent ==
    [][\A s \in NetworkStationIDs :
          NetworkOp(s) =>
              /\ currentWeather' = currentWeather
              /\ \A t \in StationIDs \ {Designated(s)} :
                    stations'[t] = stations[t] /\ ended'[t] = ended[t]]_vars

\* station 1 has completed its booking while the same booking is still Active
\* at station 2, whose vehicle has discharged; station 3 is as constructed
C17_Witness ==
    /\ ended[1] = <<"Completed">> /\ ended[2] = <<"Active">>
    /\ stations[1].totalOccupiedTime[5] = 1
    /\ stations[2].totalOccupiedTime[5] = 0
    /\ stations[2].docks[5].isOccupied /\ ~stations[1].docks[5].isOccupied
    /\ stations[1].vehicles[1].batterySOC = Num(4 * 100)
    /\ stations[2].vehicles[1].batterySOC = Num(0)
    /\ stations[3] = NewStation(3)

---------------------------------------------------------------------------
\* what identifies a booking: all of it but its status and its bill
Identity(b) ==
    <<b.bookingID, b.userID, b.vehicleID, b.dockID, b.stationID, b.startTime,
      b.duration, b.chargingType>>

(* C18: the k-th accepted booking of a station has ID k, so the IDs are     *)
(* exactly 1..bookingCount; a rejected request consumes no ID; no booking   *)
(* leaves the ledger; a booking's user, vehicle, dock, start time, duration *)
(* and charging type never change; and a booking that is no longer Active   *)
(* never becomes Active again.                                              *)
C18_LedgerAppendOnly ==
    [][LET old == Bookings(1)
           new == stations'[1].bookings
       IN /\ Len(new) \in {Len(old), Len(old) + 1}
          /\ \A k \in 1..Len(new) : new[k].bookingID = k
          /\ \A k \in 1..Len(old) :
                /\ Identity(new[k]) = Identity(old[k])
                /\ ~old[k].isActive => ~new[k].isActive
                /\ ended[1][k] # "Active" => ended'[1][k] = ended[1][k]
          /\ ~out'.ok => new = old           \* a rejected call adds nothing
          /\ Len(new) = Len(old) + 1 => out'.ok /\ new[Len(new)].isActive]_vars

\* two bookings were accepted on dock 5, with IDs 1 and 2, and both have ended
C18_Witness ==
    /\ Len(Bookings(1)) = 2
    /\ Bookings(1)[1].bookingID = 1 /\ Bookings(1)[2].bookingID = 2
    /\ ended[1] = <<"Completed", "Cancelled">>
    /\ Bookings(1)[1].dockID = 5 /\ Bookings(1)[2].dockID = 5
    /\ Bookings(1)[1].startTime = 12 /\ Bookings(1)[2].startTime = 9

---------------------------------------------------------------------------
(* Vocabulary of the claims about generateReport *)

CompletedIDs(s) == {i \in 1..Len(Bookings(s)) : ended[s][i] = "Completed"}
CancelledIDs(s) == {i \in 1..Len(Bookings(s)) : ended[s][i] = "Cancelled"}

\* the sum of f[i] over the Completed bookings of station 1
SumOverCompleted(f) ==
    SumSeq([i \in 1..Len(Bookings(1)) |-> IF i \in CompletedIDs(1) THEN f[i] ELSE 0])

\* two quotients <<numerator, denominator>> are the same number
SameQuotient(a, b) == a[1] * b[2] = b[1] * a[2]

\* the average duration of the Completed bookings, 0 when there are none
CompletedAverage ==
    IF CompletedIDs(1) = {} THEN <<0, 1>>
    ELSE <<SumOverCompleted([i \in 1..Len(Bookings(1)) |-> Bookings(1)[i].duration]),
           Cardinality(CompletedIDs(1))>>

\* C19 as the specification states it: the average session duration of the
\* report is the sum of the durations of the Completed bookings over their
\* number (0 when there are none); Cancelled and Active bookings do not count
C19_AverageOverCompleted ==
    [][GenerateReport(1) =>
          SameQuotient(out'.report.avgDuration, CompletedAverage)]_vars

(* C20: every Cancelled booking has cost 0 and energyConsumed 0, so the     *)
(* report's total revenue, summed over non-Active bookings, is the sum of   *)
(* the costs of the Completed bookings, and its grid energy, solar energy   *)
(* and CO2 figure are those of the Completed bookings alone.                *)
C20_CancelledUnbilled ==
    [][/\ \A i \in 1..Len(stations'[1].bookings) :
             ended'[1][i] = "Cancelled" =>
                 /\ stations'[1].bookings[i].cost = 0
                 /\ stations'[1].bookings[i].energyConsumed = 0
       /\ GenerateReport(1) =>
             LET n == Len(Bookings(1))
                 cost == [i \in 1..n |-> Bookings(1)[i].cost]
                 grid == [i \in 1..n |->
                            IF SourceOfDock(Bookings(1)[i].dockID) = "Grid"
                            THEN Bookings(1)[i].energyConsumed ELSE 0]
                 solar == [i \in 1..n |->
                             IF SourceOfDock(Bookings(1)[i].dockID) = "Solar"
                             THEN Bookings(1)[i].energyConsumed ELSE 0]
             IN /\ out'.report.totalRevenue = SumOverCompleted(cost)
                /\ out'.report.gridEnergy = SumOverCompleted(grid)
                /\ out'.report.solarEnergy = SumOverCompleted(solar)
                /\ out'.report.co2Savings = SumOverCompleted(grid)]_vars

\* a report made with a Cancelled booking on Grid dock 5 and a Completed one
\* on Solar dock 2: the revenue is the Completed booking's cost, and no grid
\* energy or CO2 is reported
C20_Witness ==
    /\ "report" \in DOMAIN out
    /\ Len(Bookings(1)) = 2
    /\ CancelledIDs(1) # {} /\ CompletedIDs(1) # {}
    /\ \A i \in CancelledIDs(1) : Bookings(1)[i].dockID = 5
    /\ \A i \in CompletedIDs(1) :
          /\ Bookings(1)[i].dockID = 2
          /\ Bookings(1)[i].cost > 0
          /\ out.report.totalRevenue = Bookings(1)[i].cost
          /\ out.report.solarEnergy = Bookings(1)[i].energyConsumed
    /\ out.report.gridEnergy = 0 /\ out.report.co2Savings = 0

---------------------------------------------------------------------------
\* the cost of completing booking b now, its peak factor being f over 5
CostWithPeakFactor(b, f) ==
    (BilledEnergy(b) * BaseCents(b.chargingType) * SolarTypeFactor(b)
        * f * SourceFactor(b) * MemberFactor(b)) \div 5

Surcharged(b) == CostWithPeakFactor(b, 6)
Unsurcharged(b) == CostWithPeakFactor(b, 5)

(* C21: completing a booking bills the 1.2 surcharge if and only if the     *)
(* booking's stored start time is in [12, 18).  A stored start never        *)
(* changes; a request deferred at creation is stored at 18, outside the     *)
(* window, and a booking stored inside the window was made from a request   *)
(* that was critical (Premium user or SOC below 20) when it was created.    *)
(* So no deferred booking is surcharged and every surcharged one was        *)
(* critical at creation, whatever the SOC is at completion.                 *)
C21_SurchargeIffStoredPeak ==
    [][/\ \A r \in PeakRequests :
             (Accepted /\ CallReturns /\ Creates(r)) =>
                 /\ (InPeakWindow(r[3]) /\ ~Critical(r)) =>
                        NewestBooking.startTime = 18
                 /\ InPeakWindow(NewestBooking.startTime) => Critical(r)
       /\ \A i \in 1..Len(Bookings(1)) :
             /\ Len(stations'[1].bookings) >= Len(Bookings(1))
             /\ stations'[1].bookings[i].startTime = Bookings(1)[i].startTime
             /\ Completes(i) =>
                   LET b == Bookings(1)[i]
                       done == stations'[1].bookings[i]
                   IN /\ InPeakWindow(b.startTime) => done.cost = Surcharged(b)
                      /\ ~InPeakWindow(b.startTime) => done.cost = Unsurcharged(b)
                      /\ BilledEnergy(b) > 0 => Surcharged(b) # Unsurcharged(b)]_vars

\* the Regular user's car was discharged to SOC 0, which made the request
\* for 13:00 critical: the booking is stored at 13 and billed the surcharge
C21_Witness ==
    /\ Len(Bookings(1)) = 1 /\ ended[1] = <<"Completed">>
    /\ Bookings(1)[1].userID = 2 /\ ~HasPremiumUser(2)
    /\ Bookings(1)[1].startTime = 13
    /\ Bookings(1)[1].cost > 0
    /\ Bookings(1)[1].cost =
          (Bookings(1)[1].energyConsumed * BaseCents(Bookings(1)[1].chargingType)
              * 20 * 6 * SourceFactor(Bookings(1)[1]) * 20) \div 5

---------------------------------------------------------------------------
(* C22: every booking of the Solar charging type is on a Solar-backed dock; *)
(* the dock an accepted request is placed on delivers, under the weather of *)
(* that moment, at least the requested power; so at Night no request is     *)
(* placed on a Solar dock and every request of the Solar type is rejected   *)
(* (main requests 7, 22 or 50 kW, never 0).                                 *)
C22_SolarTypeOnSolarDock ==
    [][/\ \A i \in 1..Len(stations'[1].bookings) :
             stations'[1].bookings[i].chargingType = 4 =>
                 stations'[1].docks[stations'[1].bookings[i].dockID].energySource
                     = "Solar"
       /\ \A r \in BillingRequests :
             /\ (Accepted /\ Creates(r)) =>
                    /\ WeatherAdjustedPower(stations[1].docks[NewestBooking.dockID])
                           >= 2 * PowerOf(r[5])
                    /\ currentWeather = "NIGHT" =>
                           SourceOfDock(NewestBooking.dockID) = "Grid"
             /\ (currentWeather = "NIGHT" /\ r[5] = 4 /\ CallReturns /\ Creates(r)) =>
                    PowerOf(r[5]) > 0 /\ ~Accepted]_vars

\* at Night the Premium user's Slow request for 13:00, which the sun would
\* have put on a Solar dock, has just been placed on a Grid dock
C22_Witness ==
    /\ currentWeather = "NIGHT"
    /\ Len(Bookings(1)) = 1 /\ ended[1] = <<"Active">>
    /\ Bookings(1)[1].chargingType = 1 /\ Bookings(1)[1].startTime = 13
    /\ SourceOfDock(Bookings(1)[1].dockID) = "Grid"
    /\ out.ok /\ Len(out.notes) = 1 /\ out.notes[1].msg = "scheduled"

---------------------------------------------------------------------------
\* no dock passes the test of findAvailableDock for the request, at its
\* effective start time
NoDockFor(r) ==
    \A j \in 1..MAX_DOCKS :
        ~IsSuitable(stations[1], j, PowerOf(r[5]), EffectiveStart(r), r[4],
                    r[5] = 4, currentWeather)

(* C23: a createBooking call rejected because no dock is available leaves   *)
(* the station as it was: ledger, bookingCount, docks, vehicles and         *)
(* systemStartTime keep their values, also when the ledger is empty.        *)
C23_NoDockRejectionChangesNothing ==
    [][\A r \in LifecycleRequests :
          (~out'.ok /\ Validated(r) /\ NoDockFor(r) /\ Creates(r)) =>
              stations'[1] = stations[1]]_vars

---------------------------------------------------------------------------
\* the call of this step sent its user a deferral notification
DeferralSent ==
    /\ Len(out'.notes) > 0
    /\ out'.notes[1].msg = "deferred" /\ out'.notes[1].value = 18

(* C24: a createBooking call that sends a deferral notification (new start  *)
(* 18) goes on to append an Active booking with start 18 and to send the    *)
(* same user a "session scheduled" notification: no call notifies of a      *)
(* deferral and is then rejected.                                           *)
C24_DeferralThenScheduled ==
    [][DeferralSent =>
          /\ Accepted /\ out'.ok
          /\ NewestBooking.isActive /\ NewestBooking.startTime = 18
          /\ NewestBooking.userID = out'.notes[1].userID
          /\ out'.notes = <<Note(NewestBooking.userID, "deferred", 18),
                            Note(NewestBooking.userID, "scheduled", 18)>>]_vars

---------------------------------------------------------------------------
(* C25: in every reachable state of a station, no vehicle is referenced by  *)
(* two distinct Active bookings whose half-open intervals                   *)
(* [startTime, startTime + duration) overlap.                               *)
C25_VehicleNoOverlap ==
    \A s \in StationIDs : \A i, j \in ActiveIDs(s) :
        (i # j /\ Bookings(s)[i].vehicleID = Bookings(s)[j].vehicleID)
            => ~Overlap(Bookings(s)[i], Bookings(s)[j])

---------------------------------------------------------------------------
\* max(startTime + duration) over all bookings of the station, less its
\* systemStartTime
StationElapsedTime(s) ==
    LET ends == {EndTime(Bookings(s)[i]) : i \in 1..Len(Bookings(s))}
    IN (CHOOSE e \in ends : \A f \in ends : f <= e) - stations[s].systemStartTime

OccupiedHours(s) == SumSeq(stations[s].totalOccupiedTime)

(* C26: in every reachable state of a station with a non-empty ledger, the  *)
(* docks' cumulative occupied hours sum to at most stationElapsedTime * 5,  *)
(* stationElapsedTime being max(startTime + duration) over all bookings     *)
(* minus systemStartTime; and the utilization generateReport reports is at  *)
(* most 100 percent.                                                        *)
C26_UtilizationAtMost100 ==
    /\ \A s \in StationIDs :
          Len(Bookings(s)) > 0 => OccupiedHours(s) <= StationElapsedTime(s) * 5
    /\ "report" \in DOMAIN out =>
          out.report.utilization[1] <= 100 * out.report.utilization[2]

===========================================================================
